---------------------------- MODULE Spec2Model ----------------------------
(***************************************************************************)
(* A model of the peer-to-peer blockchain node of src/src/nodes.py (Node,  *)
(* BlockchainNode, MinerNode, SPVNode) and of its front-end                 *)
(* src/src/fullclient.py.                                                  *)
(*                                                                         *)
(* The Blockchain class (blockchain.py: hash, valid_proof, valid_chain,     *)
(* add_block, verify_and_add_transaction, last_block) is imported by        *)
(* nodes.py but is not among the sources; it is modelled from sections 3,   *)
(* 4.1, 4.2 and 6 of the specification.                                     *)
(***************************************************************************)
EXTENDS Integers, Sequences, FiniteSets, TLC

VARIABLES
    chain,      \* chain[n]      : blockchain.chain of node n
    pending,    \* pending[n]    : blockchain pending transactions of node n
    tx_info,    \* tx_info[n]    : keys of blockchain.tx_info of node n
    peers,      \* peers[n]      : Node.peers
    peer_info,  \* peer_info[n]  : Node.peer_info, a mapping keyed by identifier
    ready,      \* ready[n]      : Node.ready
    synced,     \* synced[n]     : Node.synced
    running,    \* running[n]    : the receive-loop thread (Node.run) is alive
    inq,        \* inq[n]        : network.inq of node n, packets not yet received
    fe_pc,      \* fe_pc[n]      : position of the front-end thread (fullclient.py)
    mine_st,    \* mine_st[n]    : position and locals of a thread inside MinerNode.mine
    hb_pc,      \* hb_pc[n]      : position of the heartbeat thread (Node.send_heartbeat)
    role,       \* role[n]       : "full" (BlockchainNode), "miner" (MinerNode), "spv" (SPVNode)
    up,         \* the nodes that are started and attached to the segment
    now,        \* the value time() returns
    last        \* history: the operation executed last and what it did

vars == <<chain, pending, tx_info, peers, peer_info, ready, synced, running,
          inq, fe_pc, mine_st, role, up, hb_pc, now, last>>

----------------------------------------------------------------------------
(* Bounds of the model *)

\* Longest chain a miner or the environment builds.
MaxChain == 2
\* The front-end re-sends `version` only while every inbound queue is shorter.
MaxBacklog == 1
\* The clock stops here.
MaxTime == 1
\* One proof in Difficulty satisfies the proof-of-work predicate.
Difficulty == 2

(* Program constants *)

\* 60*30 seconds of idleness
IdleLimit == 1800
\* the miner's reward
Reward == 50
\* the proof of the genesis block
GenesisProof == 100

Nodes == {"A", "B"}
\* Identifiers seen on the wire: the nodes and one further sender.
Ids == Nodes \cup {"X"}
\* None, and the empty target of a broadcast
None == ""

----------------------------------------------------------------------------
(* Validator and ledger: blockchain.py, modelled from the specification *)

\* The hash "0" that stands for no parent.
ZeroHash == << >>

\* A cryptographic hash is modelled as collision free: the digest of a header
\* is the tuple of its fields, the parent's digest included.
Hash(header) ==
    << header.index, header.previous_hash, header.timestamp,
       header.merkle_root, header.proof >>

\* The number a digest denotes, for the proof-of-work predicate.
RECURSIVE HashValue(_)
HashValue(h) ==
    IF h = ZeroHash THEN 0
    ELSE h[1] + h[3] + Len(h[4]) + h[5] + HashValue(h[2])

\* hash(previous_hash || proof) starts with "0000": one proof in Difficulty does.
ValidProof(previous_hash, proof) ==
    (HashValue(previous_hash) + proof) % Difficulty = 0

\* The commitment to an ordered sequence of transactions; <<>> for an empty body.
MerkleRoot(body) == body

Genesis ==
    [ header |-> [ index |-> 0, previous_hash |-> ZeroHash, timestamp |-> 0,
                   merkle_root |-> MerkleRoot(<< >>), proof |-> GenesisProof ],
      body |-> << >> ]

ValidBlock(block, previous_block) ==
    /\ block.header.index = previous_block.header.index + 1
    /\ block.header.previous_hash = Hash(previous_block.header)
    /\ ValidProof(block.header.previous_hash, block.header.proof)

ValidChain(c) ==
    /\ Len(c) >= 1
    /\ c[1] = Genesis
    /\ \A i \in 2..Len(c) : ValidBlock(c[i], c[i-1])

LastBlock(c) == c[Len(c)]

Transaction(sender, recipient, amount, previous_hash) ==
    [ sender |-> sender, recipient |-> recipient, amount |-> amount,
      previous_hash |-> previous_hash ]

\* The transactions a ledger has accepted: in its blocks or pending.
Accepted(s) ==
    { s.pending[i] : i \in 1..Len(s.pending) } \cup
    UNION { { s.chain[k].body[i] : i \in 1..Len(s.chain[k].body) } :
            k \in 1..Len(s.chain) }

\* The key under which tx_info records a transaction.
TxId(tx) == << tx.sender, tx.recipient, tx.amount, tx.previous_hash >>

\* verify_and_add_transaction on the ledger fields of s: a coinbase
\* (sender "0") always passes; another transaction is dropped when its
\* previous_hash is the previous_hash of an accepted transaction.
VerifyAndAddTransaction(s, tx) ==
    IF tx.sender # "0" /\ \E a \in Accepted(s) : a.previous_hash = tx.previous_hash
    THEN s
    ELSE [ s EXCEPT !.pending = Append(@, tx),
                    !.tx_info = @ \cup { TxId(tx) } ]

\* add_block: the new block, built from the pending transactions.
NewBlock(s, proof, previous_hash, t) ==
    [ header |-> [ index |-> Len(s.chain), previous_hash |-> previous_hash,
                   timestamp |-> t, merkle_root |-> MerkleRoot(s.pending),
                   proof |-> proof ],
      body |-> s.pending ]

\* add_block: appends the block and empties the pending transactions.
AddBlock(s, proof, previous_hash, t) ==
    [ s EXCEPT !.chain = Append(@, NewBlock(s, proof, previous_hash, t)),
               !.pending = << >> ]


----------------------------------------------------------------------------
(* The wire: envelopes and payloads (JSON objects in the code) *)

\* A payload. The fields a message type does not carry are empty; `block`
\* holds the one block of an `addblock`, `tx` the one transaction of an `addtx`.
Payload(height, chn, block, info) ==
    [ height |-> height, chain |-> chn, block |-> block, tx_info |-> info,
      tx |-> << >> ]

NoPayload == Payload(0, << >>, << >>, {})

Envelope(type, identifier, message, target) ==
    [ type |-> type, identifier |-> identifier, message |-> message,
      target |-> target ]

----------------------------------------------------------------------------
(* The fields of one node, as a record the operations below transform.      *)
(* sent: the envelopes handed to network.send, in order. err: an exception  *)
(* was raised and not caught (KeyError); the operations that would have     *)
(* followed it did not run. registered, valid, resolved: what the calls of  *)
(* register_peer, valid_chain and resolve_conflicts returned or decided,    *)
(* kept for the history variable.                                           *)

NodeState(n) ==
    [ chain |-> chain[n], pending |-> pending[n], tx_info |-> tx_info[n],
      peers |-> peers[n], peer_info |-> peer_info[n],
      ready |-> ready[n], synced |-> synced[n],
      sent |-> << >>, err |-> FALSE,
      registered |-> "none", valid |-> "none", resolved |-> "none" ]

\* The empty dict
NoPeerInfo == [ p \in {} |-> 0 ]

PeerEntry(identifier, lastrecv, lastsend, height) ==
    [ identifier |-> identifier, lastrecv |-> lastrecv, lastsend |-> lastsend,
      height |-> height ]

----------------------------------------------------------------------------
(* class Node *)

\* Node.send: the envelope goes to the network first; then lastsend of the
\* target, or of every known peer for a broadcast, is set. A target with no
\* entry in peer_info raises KeyError.
Send(s, self, type, message, target) ==
    IF s.err THEN s
    ELSE
    LET s1 == [ s EXCEPT !.sent = Append(@, Envelope(type, self, message, target)) ]
        info == s1.peer_info
    IN  IF target # None
        THEN IF target \in DOMAIN info
             THEN [ s1 EXCEPT !.peer_info = [ info EXCEPT ![target].lastsend = now ] ]
             ELSE [ s1 EXCEPT !.err = TRUE ]
        ELSE IF s1.peers \subseteq DOMAIN info
             THEN [ s1 EXCEPT !.peer_info =
                        [ p \in DOMAIN info |->
                            IF p \in s1.peers
                            THEN [ info[p] EXCEPT !.lastsend = now ]
                            ELSE info[p] ] ]
             ELSE [ s1 EXCEPT !.err = TRUE ]

\* register_peer without its membership test: the entry is written anew.
RegisterPeerOverwrite(s, identifier, height) ==
    [ s EXCEPT !.peers = @ \cup { identifier },
               !.peer_info = [ p \in DOMAIN @ \ { identifier } |-> @[p] ]
                             @@ (identifier :> PeerEntry(identifier, now, 0, height)),
               !.registered = "true" ]

\* Node.register_peer; the return value is left in s.registered.
RegisterPeer(s, identifier, height) ==
    IF identifier \notin s.peers
    THEN [ s EXCEPT !.peers = @ \cup { identifier },
                    !.peer_info = [ p \in DOMAIN @ \ { identifier } |-> @[p] ]
                                  @@ (identifier :> PeerEntry(identifier, now, 0, height)),
                    !.registered = "true" ]
    ELSE [ s EXCEPT !.registered = "false" ]

\* AnswerVersion with the two replies in the other order.
AnswerVersionSwapped(r, self, sender) ==
    IF r.registered = "true"
    THEN Send(Send(r, self, "version", Payload(Len(r.chain), << >>, << >>, {}), sender),
              self, "verack", NoPayload, sender)
    ELSE r

\* Node.handle_data, `version`, after register_peer left the fields r: a
\* newly registered sender is sent `verack`, then `version`.
AnswerVersion(r, self, sender) ==
    IF r.registered = "true"
    THEN Send(Send(r, self, "verack", NoPayload, sender),
              self, "version", Payload(Len(r.chain), << >>, << >>, {}), sender)
    ELSE r

\* Node.handle_data: the branches `version` and `verack`
HandleHandshake(s, self, data) ==
    IF data.type = "version"
    THEN AnswerVersion(RegisterPeer(s, data.identifier, data.message.height),
                       self, data.identifier)
    ELSE IF data.type = "verack"
    THEN [ s EXCEPT !.ready = TRUE ]
    ELSE s

\* Node.handle_data: the branches under `if self.ready`
HandleHeartbeat(s, self, data) ==
    IF s.ready /\ ~ s.err /\ data.type = "heartbeat"
    THEN Send(s, self, "heartbeatack", NoPayload, data.identifier)
    ELSE s

\* Node.handle_data
NodeHandleData(s, self, data) ==
    HandleHeartbeat(HandleHandshake(s, self, data), self, data)

\* Sweep with the limit itself counted as idle.
SweepAtLimit(s) ==
    LET disconnected_peers ==
            { p \in DOMAIN s.peer_info :
                s.peer_info[p].lastsend - s.peer_info[p].lastrecv >= IdleLimit }
    IN  IF disconnected_peers \subseteq s.peers
        THEN [ s EXCEPT !.peer_info = [ p \in DOMAIN @ \ disconnected_peers |-> @[p] ],
                        !.peers = @ \ disconnected_peers ]
        ELSE [ s EXCEPT !.err = TRUE ]

\* Sweep that removes the idle peers from peer_info alone.
SweepInfoOnly(s) ==
    LET disconnected_peers ==
            { p \in DOMAIN s.peer_info :
                s.peer_info[p].lastsend - s.peer_info[p].lastrecv > IdleLimit }
    IN  [ s EXCEPT !.peer_info = [ p \in DOMAIN @ \ disconnected_peers |-> @[p] ] ]

\* The first part of one iteration of Node.run: the peers idle for more than
\* 30 minutes are removed from peer_info and from peers.
Sweep(s) ==
    LET disconnected_peers ==
            { p \in DOMAIN s.peer_info :
                s.peer_info[p].lastsend - s.peer_info[p].lastrecv > IdleLimit }
    IN  IF disconnected_peers \subseteq s.peers
        THEN [ s EXCEPT !.peer_info = [ p \in DOMAIN @ \ disconnected_peers |-> @[p] ],
                        !.peers = @ \ disconnected_peers ]
        ELSE [ s EXCEPT !.err = TRUE ]


----------------------------------------------------------------------------
(* class BlockchainNode *)

\* The loop of resolve_conflicts over self.peers, in the iteration order
\* `order` of the set (a sequence of identifiers, those not in peers skipped):
\* best is <<max_height, max_height_peer>>.
RECURSIVE ScanPeers(_, _, _, _)
ScanPeers(s, order, i, best) ==
    IF i > Len(order) THEN best
    ELSE LET peer == order[i]
         IN  IF /\ peer \in s.peers
                /\ peer \in DOMAIN s.peer_info
                /\ s.peer_info[peer].height > best[1]
             THEN ScanPeers(s, order, i + 1, << s.peer_info[peer].height, peer >>)
             ELSE ScanPeers(s, order, i + 1, best)

\* BlockchainNode.resolve_conflicts; the peer asked, or "synced", is left in
\* s.resolved.
ResolveConflicts(s, self, order) ==
    IF s.err THEN s
    ELSE
    LET max_height_peer == ScanPeers(s, order, 1, << Len(s.chain), None >>)[2]
    IN  IF max_height_peer # None
        THEN [ Send(s, self, "getdata", NoPayload, max_height_peer)
                 EXCEPT !.resolved = max_height_peer ]
        ELSE [ s EXCEPT !.synced = TRUE, !.resolved = "synced" ]

\* The `chain` branch without the call of valid_chain
HandleChainUnchecked(s, self, data, order) ==
    [ s EXCEPT !.chain = data.message.chain, !.tx_info = @ \cup data.message.tx_info,
               !.synced = TRUE, !.valid = "true" ]

\* The `chain` branch of BlockchainNode.handle_data
HandleChain(s, self, data, order) ==
    LET sender == data.identifier
        chn == data.message.chain
        info == data.message.tx_info
        s1 == IF sender \in s.peers
              THEN IF sender \in DOMAIN s.peer_info
                   THEN [ s EXCEPT !.peer_info[sender].height = Len(chn) ]
                   ELSE [ s EXCEPT !.err = TRUE ]
              ELSE s
    IN  IF s1.err THEN s1
        ELSE IF ValidChain(chn)
        THEN [ s1 EXCEPT !.chain = chn, !.tx_info = @ \cup info,
                         !.synced = TRUE, !.valid = "true" ]
        ELSE ResolveConflicts([ s1 EXCEPT !.valid = "false" ], self, order)

\* The `addblock` branch without the call of valid_chain
HandleAddBlockUnchecked(s, self, data, order) ==
    [ s EXCEPT !.chain = Append(@, data.message.block[1]),
               !.tx_info = @ \cup data.message.tx_info, !.valid = "true" ]

\* The `addblock` branch of BlockchainNode.handle_data
HandleAddBlock(s, self, data, order) ==
    LET sender == data.identifier
        new_block == data.message.block[1]
        height == data.message.height
        info == data.message.tx_info
        s1 == IF sender \in s.peers
              THEN IF sender \in DOMAIN s.peer_info
                   THEN [ s EXCEPT !.peer_info[sender].height = height ]
                   ELSE [ s EXCEPT !.err = TRUE ]
              ELSE s
        chn == Append(s.chain, new_block)
    IN  IF s1.err THEN s1
        ELSE IF ValidChain(chn)
        THEN [ s1 EXCEPT !.chain = chn, !.tx_info = @ \cup info,
                         !.valid = "true" ]
        ELSE ResolveConflicts([ s1 EXCEPT !.valid = "false" ], self, order)

\* The headers of a chain, as `getheaders` is answered
Headers(c) == [ i \in 1..Len(c) |-> c[i].header ]

\* BlockchainNode.handle_data after the call of Node.handle_data, which left
\* the fields s1
HandleRequest(s1, self, data, order) ==
    LET msg_type == data.type
        sender == data.identifier
    IN  IF s1.err THEN s1
        ELSE IF msg_type = "getdata"
        THEN Send(s1, self, "chain",
                  Payload(0, s1.chain, << >>, s1.tx_info), sender)
        ELSE IF msg_type = "getheaders"
        THEN Send(s1, self, "headers",
                  Payload(0, Headers(s1.chain), << >>, {}), sender)
        ELSE IF msg_type = "chain"
        THEN HandleChain(s1, self, data, order)
        ELSE IF msg_type = "addblock"
        THEN HandleAddBlock(s1, self, data, order)
        ELSE s1

\* BlockchainNode.handle_data
BlockchainHandleData(s, self, data, order) ==
    HandleRequest(NodeHandleData(s, self, data), self, data, order)

----------------------------------------------------------------------------
(* class MinerNode *)

\* MinerNode.proof_of_work: the search from `proof` upwards
RECURSIVE ProofSearch(_, _)
ProofSearch(prev_hash, proof) ==
    IF ValidProof(prev_hash, proof) THEN proof
    ELSE ProofSearch(prev_hash, proof + 1)

ProofOfWork(prev_hash) == ProofSearch(prev_hash, 0)

\* The reward transaction of MinerNode.mine
Coinbase(self) == Transaction("0", self, Reward, "0")

\* MineBlock without the reward transaction.
MineBlockNoReward(s, self, prev_hash, proof) ==
    LET s2 == AddBlock(s, proof, prev_hash, now)
    IN  Send(s2, self, "addblock",
             Payload(Len(s2.chain), << >>, << LastBlock(s2.chain) >>, s2.tx_info), None)

\* MinerNode.mine from the reward on, with the prev_hash and proof found
\* before: the reward is added, the block assembled and appended, and
\* `addblock` broadcast with the new length of the chain.
MineBlock(s, self, prev_hash, proof) ==
    LET s1 == VerifyAndAddTransaction(s, Coinbase(self))
        s2 == AddBlock(s1, proof, prev_hash, now)
        block == LastBlock(s2.chain)
    IN  Send(s2, self, "addblock",
             Payload(Len(s2.chain), << >>, << block >>, s2.tx_info), None)

\* MinerNode.handle_data after the call of BlockchainNode.handle_data, which
\* left the fields s1
HandleAddTx(s1, data) ==
    IF s1.err THEN s1
    ELSE IF data.type = "addtx"
    THEN VerifyAndAddTransaction(s1, data.message.tx[1])
    ELSE s1

\* MinerNode.handle_data
MinerHandleData(s, self, data, order) ==
    HandleAddTx(BlockchainHandleData(s, self, data, order), data)

----------------------------------------------------------------------------
(* class SPVNode: its chain is a sequence of headers *)

\* valid_headers: valid_chain on header records.
ValidHeaders(headers) ==
    /\ Len(headers) >= 1
    /\ headers[1] = Genesis.header
    /\ \A i \in 2..Len(headers) :
         /\ headers[i].index = headers[i-1].index + 1
         /\ headers[i].previous_hash = Hash(headers[i-1])
         /\ ValidProof(headers[i].previous_hash, headers[i].proof)

\* SPVNode.resolve_conflicts
SpvResolveConflicts(s, self, order) ==
    IF s.err THEN s
    ELSE
    LET max_height_peer == ScanPeers(s, order, 1, << Len(s.chain), None >>)[2]
    IN  IF max_height_peer # None
        THEN [ Send(s, self, "getheaders", NoPayload, max_height_peer)
                 EXCEPT !.resolved = max_height_peer ]
        ELSE [ s EXCEPT !.synced = TRUE, !.resolved = "synced" ]

\* The `headers` branch without the call of valid_headers
SpvHandleHeadersUnchecked(s, self, data, order) ==
    [ s EXCEPT !.chain = data.message.chain, !.synced = TRUE, !.valid = "true" ]

\* The `headers` branch of SPVNode.handle_data
SpvHandleHeaders(s, self, data, order) ==
    LET sender == data.identifier
        headers == data.message.chain
        s1 == IF sender \in s.peers
              THEN IF sender \in DOMAIN s.peer_info
                   THEN [ s EXCEPT !.peer_info[sender].height = Len(headers) ]
                   ELSE [ s EXCEPT !.err = TRUE ]
              ELSE s
    IN  IF s1.err THEN s1
        ELSE IF ValidHeaders(headers)
        THEN [ s1 EXCEPT !.chain = headers, !.synced = TRUE, !.valid = "true" ]
        ELSE SpvResolveConflicts([ s1 EXCEPT !.valid = "false" ], self, order)

\* The `addblock` branch of SPVNode.handle_data: the header of the block is
\* appended to a copy of the chain, which is validated as a header sequence.
SpvHandleAddBlock(s, self, data, order) ==
    LET sender == data.identifier
        new_block_header == data.message.block[1].header
        height == data.message.height
        s1 == IF sender \in s.peers
              THEN IF sender \in DOMAIN s.peer_info
                   THEN [ s EXCEPT !.peer_info[sender].height = height ]
                   ELSE [ s EXCEPT !.err = TRUE ]
              ELSE s
        chn == Append(s.chain, new_block_header)
    IN  IF s1.err THEN s1
        ELSE IF ValidHeaders(chn)
        THEN [ s1 EXCEPT !.chain = chn, !.valid = "true" ]
        ELSE SpvResolveConflicts([ s1 EXCEPT !.valid = "false" ], self, order)

\* SPVNode.handle_data after the call of Node.handle_data, which left the
\* fields s1
SpvHandleRequest(s1, self, data, order) ==
    IF s1.err THEN s1
    ELSE IF data.type = "getheaders"
    THEN Send(s1, self, "headers", Payload(0, s1.chain, << >>, {}), data.identifier)
    ELSE IF data.type = "headers"
    THEN SpvHandleHeaders(s1, self, data, order)
    ELSE IF data.type = "addblock"
    THEN SpvHandleAddBlock(s1, self, data, order)
    ELSE s1

\* SPVNode.handle_data
SpvHandleData(s, self, data, order) ==
    SpvHandleRequest(NodeHandleData(s, self, data), self, data, order)

\* node.resolve_conflicts(), of the class of the node
Resolve(s, self, order) ==
    IF role[self] = "spv"
    THEN SpvResolveConflicts(s, self, order)
    ELSE ResolveConflicts(s, self, order)

----------------------------------------------------------------------------
(* Node.recv and the dispatch on the class of the node *)

HandleData(s, self, data, order) ==
    IF role[self] = "miner"
    THEN MinerHandleData(s, self, data, order)
    ELSE IF role[self] = "spv"
    THEN SpvHandleData(s, self, data, order)
    ELSE BlockchainHandleData(s, self, data, order)

\* Dispatched without the filter on the target.
DispatchedAll(self, data) == TRUE

\* A packet is dropped when it is targeted at another node.
Dispatched(self, data) == ~ (data.target # None /\ data.target # self)

\* Node.recv after handle_data, which left the fields s1: lastrecv of a
\* known sender is set.
TouchRecv(s1, sender) ==
    IF s1.err THEN s1
    ELSE IF sender \in s1.peers
    THEN IF sender \in DOMAIN s1.peer_info
         THEN [ s1 EXCEPT !.peer_info[sender].lastrecv = now ]
         ELSE [ s1 EXCEPT !.err = TRUE ]
    ELSE s1

\* Node.recv
Recv(s, self, data, order) ==
    IF s.err \/ ~ Dispatched(self, data) THEN s
    ELSE TouchRecv(HandleData(s, self, data, order), data.identifier)

\* One iteration of the loop of Node.run that finds a packet: the sweep, then
\* the packet is received.
RunIteration(s, self, data, order) == Recv(Sweep(s), self, data, order)


----------------------------------------------------------------------------
(* What the environment can put on the wire *)

\* A node's fields with chain c and nothing else.
Blank(c) ==
    [ chain |-> c, pending |-> << >>, tx_info |-> {},
      peers |-> {}, peer_info |-> NoPeerInfo, ready |-> FALSE, synced |-> FALSE,
      sent |-> << >>, err |-> FALSE,
      registered |-> "none", valid |-> "none", resolved |-> "none" ]

\* Chain c extended by the block miner m mines on it at time 0.
Extend(c, m) ==
    LET prev_hash == Hash(LastBlock(c).header)
    IN  AddBlock(VerifyAndAddTransaction(Blank(c), Coinbase(m)),
                 ProofOfWork(prev_hash), prev_hash, 0).chain

\* The valid chains of length k the miners in `makers` can build.
RECURSIVE ChainsOfLen(_, _)
ChainsOfLen(k, makers) ==
    IF k <= 1 THEN { << Genesis >> }
    ELSE { Extend(c, m) : c \in ChainsOfLen(k - 1, makers), m \in makers }

\* The chain of length k mined by m alone.
RECURSIVE ChainBy(_, _)
ChainBy(k, m) == IF k <= 1 THEN << Genesis >> ELSE Extend(ChainBy(k - 1, m), m)

\* Chain c with block i made invalid: a previous_hash that is not the hash of
\* its parent, a proof that fails valid_proof, or an index out of sequence.
Corrupt(c, i, kind) ==
    LET header == c[i].header
    IN  [ c EXCEPT ![i].header =
            IF kind = "hash" THEN [ header EXCEPT !.previous_hash = Hash(header) ]
            ELSE IF kind = "proof" THEN [ header EXCEPT !.proof = header.proof + 1 ]
            ELSE [ header EXCEPT !.index = header.index + 1 ] ]

Kinds == { "hash", "proof", "index" }

EnvMakers == { "X" }

EnvValidChains == UNION { ChainsOfLen(k, EnvMakers) : k \in 1..MaxChain }

\* The chains of `chain` messages: the valid ones, those with an invalid last
\* block, and the empty one.
EnvChains ==
    EnvValidChains
    \cup { Corrupt(c, Len(c), kind) : c \in EnvValidChains \ { << Genesis >> },
                                     kind \in Kinds }
    \cup { << >> }

\* The blocks of `addblock` messages.
EnvBlocks == { c[Len(c)] : c \in EnvChains \ { << >> } }

Heights == 1..(MaxChain + 1)

\* The tx_info that goes with a chain: the keys of its transactions.
InfoOf(c) ==
    UNION { { TxId(c[k].body[i]) : i \in 1..Len(c[k].body) } : k \in 1..Len(c) }

\* The transaction of an `addtx` message.
EnvTx == Transaction("X", "B", 1, "t")

\* The packets of each type, from `sender` to `target`.
VersionPackets(sender, target) ==
    { Envelope("version", sender, Payload(h, << >>, << >>, {}), target) :
        h \in Heights }

PlainPackets(types, sender, target) ==
    { Envelope(type, sender, NoPayload, target) : type \in types }

ChainPackets(sender, target) ==
    { Envelope("chain", sender, Payload(0, c, << >>, InfoOf(c)), target) :
        c \in EnvChains }

\* An `addblock` claims the height of its block, or more.
AddBlockPackets(sender, target) ==
    UNION { { Envelope("addblock", sender,
                       Payload(h, << >>, << b >>, InfoOf(<< b >>)), target) :
                h \in { b.header.index + 1, MaxChain + 1 } } :
            b \in EnvBlocks }

\* The packets that can arrive at node n from outside the model: broadcasts,
\* packets targeted at n, and packets targeted at another node.
ExternalPackets(n) ==
    UNION { VersionPackets(sender, None) \cup VersionPackets(sender, n)
            \cup PlainPackets({ "heartbeat" }, sender, None)
            \cup PlainPackets({ "verack", "heartbeatack", "getdata", "getheaders" },
                              sender, n)
            \cup ChainPackets(sender, n)
            \cup AddBlockPackets(sender, None)
            \cup PlainPackets({ "version", "verack", "heartbeat", "heartbeatack",
                                "getdata", "getheaders", "chain", "addblock" },
                              sender, "X") :
            sender \in Ids \ { n } }

\* The orders in which the set S of identifiers can be iterated
Orders(S) ==
    { o \in [ 1..Cardinality(S) -> S ] :
        \A i, j \in 1..Cardinality(S) : i # j => o[i] # o[j] }

----------------------------------------------------------------------------
(* History *)

NoEnvelope == Envelope("", "", NoPayload, "")

\* What operation op of node n did, on packet data, ending with fields s.
\* evicted: the identifiers the operation removed from peers.
\* accepted: the packet, when its chain or block was committed. repeat: the
\* packet is the one the operation before accepted.
Done(op, n, data, s) ==
    [ op |-> op, node |-> n, type |-> data.type, sender |-> data.identifier,
      target |-> data.target, evicted |-> peers[n] \ s.peers,
      dispatched |-> op = "recv" /\ Dispatched(n, data),
      sent |-> s.sent, registered |-> s.registered, valid |-> s.valid,
      resolved |-> s.resolved, err |-> s.err,
      accepted |-> IF s.valid = "true" THEN data ELSE NoEnvelope,
      repeat |-> op = "recv" /\ data # NoEnvelope /\ last.node = n
                 /\ last.accepted = data ]

----------------------------------------------------------------------------
(* Actions *)

\* The fields of node n become those of s, and what s sent is put in the
\* inbound queue of every other started node; q is inq before that.
Commit(n, s, q) ==
    /\ chain' = [ chain EXCEPT ![n] = s.chain ]
    /\ pending' = [ pending EXCEPT ![n] = s.pending ]
    /\ tx_info' = [ tx_info EXCEPT ![n] = s.tx_info ]
    /\ peers' = [ peers EXCEPT ![n] = s.peers ]
    /\ peer_info' = [ peer_info EXCEPT ![n] = s.peer_info ]
    /\ ready' = [ ready EXCEPT ![n] = s.ready ]
    /\ synced' = [ synced EXCEPT ![n] = s.synced ]
    /\ inq' = [ m \in Nodes |-> IF m \in up /\ m # n THEN q[m] \o s.sent ELSE q[m] ]

\* An operation op of the receive loop of n, on packet data, ends with the
\* fields s; an exception ends the thread.
RunCommit(n, s, q, op, data) ==
    /\ Commit(n, s, q)
    /\ running' = [ running EXCEPT ![n] = ~ s.err ]
    /\ last' = Done(op, n, data, s)

\* An operation op of a thread of n other than the receive loop ends with
\* the fields s; an exception (last'.err) ends that thread.
FeCommit(n, s, op) ==
    /\ Commit(n, s, inq)
    /\ last' = Done(op, n, NoEnvelope, s)

\* The receive loop of n takes the packet at the head of its queue.
RunRecv(n) ==
    /\ n \in up /\ running[n] /\ inq[n] # << >>
    /\ \E order \in Orders(peers[n]) :
         RunCommit(n, RunIteration(NodeState(n), n, Head(inq[n]), order),
                   [ inq EXCEPT ![n] = Tail(@) ], "recv", Head(inq[n]))
    /\ UNCHANGED << fe_pc, mine_st, role, up, hb_pc, now >>

\* The receive loop of n takes a packet of `packets` that arrived from
\* outside the model.
RunRecvFrom(n, packets) ==
    /\ n \in up /\ running[n]
    /\ \E data \in packets, order \in Orders(peers[n]) :
         RunCommit(n, RunIteration(NodeState(n), n, data, order), inq, "recv", data)
    /\ UNCHANGED << fe_pc, mine_st, role, up, hb_pc, now >>

RunRecvExternal(n) == RunRecvFrom(n, ExternalPackets(n))

\* The packets of the peer protocol alone.
PeerPackets(n) ==
    { data \in ExternalPackets(n) : data.type \notin { "chain", "addblock" } }

RunRecvPeer(n) == RunRecvFrom(n, PeerPackets(n))

\* Time passes.
Tick ==
    /\ now < MaxTime
    /\ now' = now + 1
    /\ last' = [ last EXCEPT !.op = "tick", !.repeat = FALSE ]
    /\ UNCHANGED << chain, pending, tx_info, peers, peer_info, ready, synced,
                    running, inq, fe_pc, mine_st, role, up, hb_pc >>

\* An iteration of the receive loop that finds no packet: the sweep alone.
RunIdle(n) ==
    /\ n \in up /\ running[n] /\ inq[n] = << >>
    /\ RunCommit(n, Sweep(NodeState(n)), inq, "idle", NoEnvelope)
    /\ UNCHANGED << fe_pc, mine_st, role, up, hb_pc, now >>

\* fullclient.py, the loop `while not node.ready`: one more `version`.
FeVersion(n) ==
    /\ n \in up /\ fe_pc[n] = "version" /\ ~ ready[n]
    /\ \A m \in up \ { n } : Len(inq[m]) < MaxBacklog
    /\ FeCommit(n, Send(NodeState(n), n, "version",
                        Payload(Len(chain[n]), << >>, << >>, {}), None),
                "version")
    /\ fe_pc' = [ fe_pc EXCEPT ![n] = IF last'.err THEN "dead" ELSE @ ]
    /\ UNCHANGED << running, mine_st, role, up, hb_pc, now >>

\* fullclient.py: the loop ends once the node is ready.
FeReady(n) ==
    /\ n \in up /\ fe_pc[n] = "version" /\ ready[n]
    /\ fe_pc' = [ fe_pc EXCEPT ![n] = "resolve" ]
    /\ last' = Done("ready", n, NoEnvelope, NodeState(n))
    /\ UNCHANGED << chain, pending, tx_info, peers, peer_info, ready, synced,
                    running, inq, mine_st, role, up, hb_pc, now >>

\* fullclient.py: node.resolve_conflicts()
FeResolve(n) ==
    /\ n \in up /\ fe_pc[n] = "resolve"
    /\ \E order \in Orders(peers[n]) :
         FeCommit(n, Resolve(NodeState(n), n, order), "resolve")
    /\ fe_pc' = [ fe_pc EXCEPT ![n] = IF last'.err THEN "dead" ELSE "wait" ]
    /\ UNCHANGED << running, mine_st, role, up, hb_pc, now >>

\* fullclient.py, the loop `while not node.synced` ends; the input loop follows.
FeSynced(n) ==
    /\ n \in up /\ fe_pc[n] = "wait" /\ synced[n]
    /\ fe_pc' = [ fe_pc EXCEPT ![n] = "input" ]
    /\ last' = Done("synced", n, NoEnvelope, NodeState(n))
    /\ UNCHANGED << chain, pending, tx_info, peers, peer_info, ready, synced,
                    running, inq, mine_st, role, up, hb_pc, now >>

----------------------------------------------------------------------------
(* A full node that receives whatever the network carries *)

\* Nodes that have just been constructed and started.
Fresh ==
    /\ peers = [ n \in Nodes |-> {} ]
    /\ peer_info = [ n \in Nodes |-> NoPeerInfo ]
    /\ ready = [ n \in Nodes |-> FALSE ]
    /\ synced = [ n \in Nodes |-> FALSE ]
    /\ fe_pc = [ n \in Nodes |-> "version" ]

\* Nodes after the handshake and the initial sync of a network where every
\* chain has length 1: each knows the other, is ready and synced, and its
\* front-end reads input.
Settled ==
    /\ peers = [ n \in Nodes |-> Nodes \ { n } ]
    /\ peer_info = [ n \in Nodes |->
                       [ p \in Nodes \ { n } |-> PeerEntry(p, 0, 0, 1) ] ]
    /\ ready = [ n \in Nodes |-> TRUE ]
    /\ synced = [ n \in Nodes |-> TRUE ]
    /\ fe_pc = [ n \in Nodes |-> "input" ]

InitLedger ==
    /\ pending = [ n \in Nodes |-> << >> ]
    /\ tx_info = [ n \in Nodes |-> {} ]
    /\ running = [ n \in Nodes |-> TRUE ]
    /\ inq = [ n \in Nodes |-> << >> ]
    /\ hb_pc = [ n \in Nodes |-> "start" ]
    /\ mine_st = [ n \in Nodes |-> [ pc |-> "idle", prev_hash |-> ZeroHash, proof |-> 0 ] ]
    /\ now = 0
    /\ last = [ op |-> "init", node |-> None, type |-> "", sender |-> "",
                target |-> "", evicted |-> {},
                dispatched |-> FALSE, sent |-> << >>, registered |-> "none",
                valid |-> "none", resolved |-> "none", err |-> FALSE,
                accepted |-> NoEnvelope, repeat |-> FALSE ]

InitFields == InitLedger /\ Fresh

Init ==
    /\ InitFields
    /\ chain = [ n \in Nodes |-> << Genesis >> ]
    /\ role = [ n \in Nodes |-> "full" ]
    /\ up = { "A" }

Next ==
    \E n \in Nodes :
        \/ RunRecvExternal(n)
        \/ FeVersion(n)
        \/ FeReady(n)
        \/ FeResolve(n)
        \/ FeSynced(n)

Spec == Init /\ [][Next]_vars


----------------------------------------------------------------------------
(* Claims about a full node under arbitrary packets *)

\* The last operation was node n receiving and dispatching a packet of
\* type `type`.
Received(n, type) ==
    /\ last.op = "recv" /\ last.node = n /\ last.type = type /\ last.dispatched

\* C1: the chain of a started full node passes valid_chain after every
\* sequence of packets: it starts with the genesis block, each block carries
\* the hash of the header before it, and each header after the genesis block
\* (which is fixed) satisfies valid_proof. A `chain` or `addblock` that is
\* rejected leaves the chain as it was.
C1_ChainStaysValid ==
    /\ [](\A n \in up :
            /\ ValidChain(chain[n])
            /\ chain[n][1] = Genesis
            /\ \A i \in 2..Len(chain[n]) :
                 /\ chain[n][i].header.previous_hash = Hash(chain[n][i-1].header)
                 /\ ValidProof(chain[n][i].header.previous_hash,
                               chain[n][i].header.proof))
    /\ [][\A n \in up :
            ((Received(n, "chain")' \/ Received(n, "addblock")')
              /\ last'.valid = "false") => chain'[n] = chain[n]]_vars

\* C1 witness: a node has rejected an invalid `addblock` while holding a
\* chain longer than the genesis block.
C1_Witness ==
    \E n \in up : /\ Received(n, "addblock") /\ last.valid = "false"
                  /\ Len(chain[n]) > 1

\* C2: a `chain` message that replaces the chain of a node replaces it by a
\* valid chain that is at least as long.
C2_ReplacementNotShorter ==
    [][\A n \in up :
         (Received(n, "chain")' /\ chain'[n] # chain[n])
            => (ValidChain(chain'[n]) /\ Len(chain'[n]) >= Len(chain[n]))]_vars


\* The claimed heights in the peer table of n that exceed its chain
Higher(n) ==
    { p \in peers[n] : peer_info[n][p].height > Len(chain[n]) }

\* C8: resolve_conflicts, when some peer claims more than len(chain), sends
\* `getdata` to a peer of maximal claimed height and leaves the node
\* unsynced; otherwise it sends nothing and sets synced.
C8_ResolveConflicts ==
    \A n \in up :
      (last.node = n /\ last.resolved # "none" /\ ~ last.err) =>
        IF Higher(n) # {}
        THEN /\ \E p \in Higher(n) :
                  /\ \A q \in peers[n] : peer_info[n][q].height <= peer_info[n][p].height
                  /\ last.sent = << Envelope("getdata", n, NoPayload, p) >>
             /\ ~ synced[n]
        ELSE /\ last.sent = << >>
             /\ synced[n]

\* C10: a valid `addblock` is appended when it is first handled, and handling
\* the same packet again next is rejected and leaves the chain unchanged.
C10_AddBlockIdempotent ==
    [][\A n \in up :
         /\ (Received(n, "addblock")' /\ last'.valid = "true")
               => chain'[n] = Append(chain[n], last'.accepted.message.block[1])
         /\ (Received(n, "addblock")' /\ last'.repeat)
               => (last'.valid = "false" /\ chain'[n] = chain[n])]_vars

\* C10 witness: a node has handled again the `addblock` it had just accepted.
C10_Witness ==
    \E n \in up : Received(n, "addblock") /\ last.repeat

----------------------------------------------------------------------------
(* The peer table of a node under the packets of the peer protocol, with    *)
(* time passing                                                             *)

PeerNext ==
    \/ \E n \in Nodes : RunRecvPeer(n)
    \/ \E n \in Nodes : RunIdle(n)
    \/ Tick

PeerSpec == Init /\ [][PeerNext]_vars

\* C6: a `version` from a peer that is already registered is answered with a
\* `verack` to that peer.
C6_VersionAlwaysAcked ==
    \A n \in up :
      (Received(n, "version") /\ last.registered = "false") =>
        \E i \in 1..Len(last.sent) :
          last.sent[i] = Envelope("verack", n, NoPayload, last.sender)

\* C7: register_peer, called in any reachable state of a node, registers an
\* unknown identifier (entry: lastrecv now, lastsend 0, the given height) and
\* returns true; for a known identifier it returns false and changes neither
\* the peer set nor the table. A `version` from a registered sender leaves
\* the peer set and the keys of the table as they were, and its entry keeps
\* its lastsend and height.
C7_RegisterIdempotent ==
    /\ [](\A n \in up, id \in Ids, h \in Heights :
            LET s == NodeState(n)
                r == RegisterPeer(s, id, h)
            IN  IF id \in s.peers
                THEN /\ r.registered = "false"
                     /\ r.peers = s.peers
                     /\ r.peer_info = s.peer_info
                ELSE /\ r.registered = "true"
                     /\ r.peers = s.peers \cup { id }
                     /\ DOMAIN r.peer_info = DOMAIN s.peer_info \cup { id }
                     /\ r.peer_info[id] = PeerEntry(id, now, 0, h)
                     /\ \A p \in DOMAIN s.peer_info \ { id } :
                          r.peer_info[p] = s.peer_info[p])
    /\ [][\A n \in up :
            (Received(n, "version")' /\ last'.registered = "false") =>
               /\ peers'[n] = peers[n]
               /\ DOMAIN peer_info'[n] = DOMAIN peer_info[n]
               /\ last'.sender \in DOMAIN peer_info[n]
               /\ peer_info'[n][last'.sender].lastsend = peer_info[n][last'.sender].lastsend
               /\ peer_info'[n][last'.sender].height = peer_info[n][last'.sender].height]_vars

\* C7 witness: a second `version` arrived, later and with another height,
\* from a peer to which something had been sent.
C7_Witness ==
    \E n \in up :
      /\ Received(n, "version") /\ last.registered = "false"
      /\ peer_info[n][last.sender].lastsend > 0
      /\ peer_info[n][last.sender].lastrecv > 0


----------------------------------------------------------------------------
(* Two nodes on one segment with reliable, in-order delivery: each runs its  *)
(* receive loop and the front-end of fullclient.py                          *)

NetNext ==
    \E n \in Nodes :
        \/ RunRecv(n)
        \/ FeVersion(n)
        \/ FeReady(n)
        \/ FeResolve(n)
        \/ FeSynced(n)

\* Every thread that can take a step eventually takes one.
NetFair ==
    \A n \in Nodes :
        /\ WF_vars(RunRecv(n))
        /\ WF_vars(FeVersion(n))
        /\ WF_vars(FeReady(n))
        /\ WF_vars(FeResolve(n))
        /\ WF_vars(FeSynced(n))

\* Nothing is in flight and no front-end has a step left.
Quiescent ==
    /\ \A n \in Nodes : inq[n] = << >>
    /\ \A n \in Nodes : fe_pc[n] = "input"

(* Handshake of two fresh nodes *)

HandshakeInit ==
    /\ InitFields
    /\ chain = [ n \in Nodes |-> << Genesis >> ]
    /\ role = [ n \in Nodes |-> "full" ]
    /\ up = Nodes

HandshakeSpec == HandshakeInit /\ [][NetNext]_vars /\ NetFair

\* C5: a node that registers the sender of a `version` answers it with
\* `verack` and then a targeted `version` carrying its chain length, and the
\* handshake of two fresh nodes ends in a quiescent state where each peer
\* table holds exactly the other node and both nodes are ready.
C5_Handshake ==
    /\ [](\A n \in Nodes :
            (Received(n, "version") /\ last.registered = "true") =>
              last.sent = << Envelope("verack", n, NoPayload, last.sender),
                             Envelope("version", n,
                                      Payload(Len(chain[n]), << >>, << >>, {}),
                                      last.sender) >>)
    /\ <>[](/\ Quiescent
            /\ \A n \in Nodes :
                 /\ ready[n]
                 /\ peers[n] = Nodes \ { n }
                 /\ DOMAIN peer_info[n] = Nodes \ { n })

\* C5 witness: the handshake is over; each node knows the other, with the
\* height its `version` carried.
C5_Witness ==
    /\ Quiescent
    /\ \A n \in Nodes : ready[n] /\ peers[n] = Nodes \ { n }
    /\ peer_info["A"]["B"].height = 1

(* Sync of a longer chain *)

SyncInit ==
    /\ InitFields
    /\ chain = [ n \in Nodes |-> IF n = "A" THEN ChainBy(3, "X") ELSE ChainBy(5, "X") ]
    /\ role = [ n \in Nodes |-> "full" ]
    /\ up = Nodes

SyncSpec == SyncInit /\ [][NetNext]_vars /\ NetFair

\* C3: after the handshake A asks B for its chain, B answers with its five
\* blocks, and A ends synced with a chain of length 5 equal to the one of B.
C3_InitialSync ==
    <>(/\ synced["A"]
       /\ Len(chain["A"]) = 5
       /\ chain["A"] = chain["B"])

(* A peer whose chain does not validate *)

RejectInit ==
    /\ InitFields
    /\ chain = [ n \in Nodes |-> IF n = "A" THEN ChainBy(2, "X")
                                 ELSE Corrupt(ChainBy(5, "X"), 3, "hash") ]
    /\ role = [ n \in Nodes |-> "full" ]
    /\ up = Nodes

RejectSpec == RejectInit /\ [][NetNext]_vars /\ NetFair

\* C4: once A has rejected the chain of its only peer B, A eventually is
\* synced with its chain still of length 2, and from some point on no
\* `getdata` goes to B any more.
C4_RejectThenSynced ==
    (Received("A", "chain") /\ last.valid = "false" /\ peers["A"] = { "B" })
      ~> (/\ synced["A"]
          /\ Len(chain["A"]) = 2)


----------------------------------------------------------------------------
(* A miner and a full node *)

\* MinerNode.mine up to the end of proof_of_work: the tip is read, its hash
\* taken and the proof searched. The mining loop runs on a node that is ready
\* and synced.
MineStart(n) ==
    /\ n \in up /\ role[n] = "miner" /\ ready[n] /\ synced[n]
    /\ mine_st[n].pc = "idle"
    /\ Len(chain[n]) <= MaxChain
    /\ \A m \in up : Len(inq[m]) < MaxBacklog
    /\ mine_st' = [ mine_st EXCEPT ![n] =
                      [ pc |-> "found",
                        prev_hash |-> Hash(LastBlock(chain[n]).header),
                        proof |-> ProofOfWork(Hash(LastBlock(chain[n]).header)) ] ]
    /\ last' = Done("search", n, NoEnvelope, NodeState(n))
    /\ UNCHANGED << chain, pending, tx_info, peers, peer_info, ready, synced,
                    running, inq, fe_pc, role, up, hb_pc, now >>

\* MinerNode.mine from the reward on.
MineFinish(n) ==
    /\ n \in up /\ mine_st[n].pc = "found"
    /\ FeCommit(n, MineBlock(NodeState(n), n, mine_st[n].prev_hash, mine_st[n].proof),
                "mine")
    /\ mine_st' = [ mine_st EXCEPT ![n] =
                      [ pc |-> "idle", prev_hash |-> ZeroHash, proof |-> 0 ] ]
    /\ UNCHANGED << running, fe_pc, role, up, hb_pc, now >>

\* What reaches a node from outside while it mines: the valid chains of a
\* competing miner and a transaction.
MinePackets(n) ==
    { data \in ChainPackets("X", n) :
        ValidChain(data.message.chain) /\ Len(data.message.chain) > 1 }
    \cup { Envelope("addtx", "X", [ NoPayload EXCEPT !.tx = << EnvTx >> ], None) }

RunRecvMine(n) == RunRecvFrom(n, MinePackets(n))

\* Both nodes are past the handshake and the initial sync.
MineInit ==
    /\ InitLedger /\ Settled
    /\ chain = [ n \in Nodes |-> << Genesis >> ]
    /\ role = [ n \in Nodes |-> IF n = "B" THEN "miner" ELSE "full" ]
    /\ up = Nodes

MineNext ==
    \E n \in Nodes :
        \/ RunRecv(n)
        \/ RunRecvMine(n)
        \/ MineStart(n)
        \/ MineFinish(n)

MineSpec == MineInit /\ [][MineNext]_vars

\* The tip of the chain of m is the one its mining attempt started from.
TipUnchanged(m) == mine_st[m].prev_hash = Hash(LastBlock(chain[m]).header)

\* C9: a miner m with a valid chain of length n whose tip did not change
\* while it mined appends one block with index n, whose previous_hash is the
\* hash of the former tip and whose body contains the coinbase, and
\* broadcasts `addblock` with height n+1; a node f with the same chain of
\* length n that handles this message ends with the chain of m.
C9_MineAndPropagate ==
    [][ /\ \A m \in Nodes :
             (last'.op = "mine" /\ last'.node = m /\ ValidChain(chain[m])
                /\ TipUnchanged(m)) =>
               LET n == Len(chain[m])
                   block == LastBlock(chain'[m])
               IN  /\ chain'[m] = Append(chain[m], block)
                   /\ block.header.index = n
                   /\ block.header.previous_hash = Hash(LastBlock(chain[m]).header)
                   /\ \E i \in 1..Len(block.body) : block.body[i] = Coinbase(m)
                   /\ Coinbase(m) = [ sender |-> "0", recipient |-> m,
                                      amount |-> 50, previous_hash |-> "0" ]
                   /\ last'.sent =
                        << Envelope("addblock", m,
                                    Payload(n + 1, << >>, << block >>, tx_info'[m]),
                                    None) >>
        /\ \A f, m \in Nodes :
             (/\ last'.op = "recv" /\ last'.node = f /\ last'.type = "addblock"
              /\ last'.sender = m /\ last'.dispatched
              /\ inq[f] # << >> /\ Head(inq[f]).type = "addblock"
              /\ ValidChain(chain[m])
              /\ Head(inq[f]).message.block = << LastBlock(chain[m]) >>
              /\ Head(inq[f]).message.height = Len(chain[m])
              /\ chain[f] = SubSeq(chain[m], 1, Len(chain[m]) - 1)) =>
               /\ Len(chain'[f]) = Len(chain[f]) + 1
               /\ LastBlock(chain'[f]) = LastBlock(chain[m])
               /\ chain'[f] = chain[m] ]_vars

\* C9 witness: the full node A has handled the `addblock` of the miner B and
\* holds the chain of B, whose last block carries the coinbase of B.
C9_Witness ==
    /\ Received("A", "addblock") /\ last.sender = "B" /\ last.valid = "true"
    /\ Len(chain["A"]) = 2
    /\ chain["A"] = chain["B"]
    /\ LastBlock(chain["A"]).body = << Coinbase("B") >>


----------------------------------------------------------------------------
(* Idle peers: one node, the packets of the peer protocol, and a clock that *)
(* passes the idle limit                                                    *)

\* The instants the clock shows: start-up, a second later, one second past
\* the idle limit, and well past it.
Instants == { 0, 1, IdleLimit + 1, IdleLimit + 100 }

\* The packets that keep a session going: a broadcast `version`, and the
\* `verack` and `heartbeat` of a peer.
IdlePackets(n) ==
    { data \in PeerPackets(n) :
        \/ data.type = "version" /\ data.target = None /\ data.message.height = 1
        \/ data.type = "verack" /\ data.target = n
        \/ data.type = "heartbeat" /\ data.target = None }

RunRecvIdle(n) == RunRecvFrom(n, IdlePackets(n))

\* Time passes, up to a later instant.
Advance ==
    /\ \E t \in Instants : t > now /\ now' = t
    /\ last' = [ last EXCEPT !.op = "tick", !.repeat = FALSE, !.evicted = {} ]
    /\ UNCHANGED << chain, pending, tx_info, peers, peer_info, ready, synced,
                    running, inq, fe_pc, mine_st, role, up, hb_pc >>

IdleNext ==
    \/ \E n \in Nodes : RunRecvIdle(n)
    \/ \E n \in Nodes : RunIdle(n)
    \/ \E n \in Nodes : FeVersion(n)
    \/ Advance

IdleSpec == Init /\ [][IdleNext]_vars

\* How long node n has been sending to p without hearing from it.
Silence(n, p) == peer_info[n][p].lastsend - peer_info[n][p].lastrecv

\* C11: a sweep removes a peer exactly when last_send - last_recv > 1800: a
\* difference of 1800 is kept, 1801 is removed, a peer registered at 0 and
\* sent to at 1900 is removed by the sweep at 1900, and a peer that was never
\* sent to is never removed.
C11_IdleEviction ==
    /\ [](\A n \in up :
            /\ Sweep(NodeState(n)).peers
                 = { p \in peers[n] : ~ (Silence(n, p) > 1800) }
            /\ DOMAIN Sweep(NodeState(n)).peer_info
                 = { p \in DOMAIN peer_info[n] : ~ (Silence(n, p) > 1800) })
    /\ [][\A n \in up :
            /\ last'.op = "idle" /\ last'.node = n =>
                 /\ last'.evicted = { p \in peers[n] : Silence(n, p) >= 1801 }
                 /\ peers'[n] = { p \in peers[n] : Silence(n, p) <= 1800 }
                 /\ \A p \in peers[n] :
                      (/\ peer_info[n][p].lastrecv = 0
                       /\ peer_info[n][p].lastsend = 1900
                       /\ now = 1900) => p \notin peers'[n]
            /\ \A p \in peers[n] :
                 peer_info[n][p].lastsend = 0 => p \in peers'[n] ]_vars

\* C11 witness: a sweep has removed a peer and kept another one whose
\* difference is exactly 1800.
C11_Witness ==
    /\ last.op = "idle" /\ last.node = "A"
    /\ last.evicted # {}
    /\ \E p \in peers["A"] : Silence("A", p) = 1800


\* C19: between operations of the receive loop peers is the key set of
\* peer_info and each entry's identifier is its key; an identifier is added
\* only by the registration of the sender of a `version` and removed only by
\* the sweep of a peer that is idle.
C19_PeersMatchPeerInfo ==
    /\ [](\A n \in up :
            /\ peers[n] = DOMAIN peer_info[n]
            /\ \A p \in DOMAIN peer_info[n] : peer_info[n][p].identifier = p)
    /\ [][\A n \in up :
            /\ peers'[n] \ peers[n] # {} =>
                 /\ last'.op = "recv" /\ last'.node = n /\ last'.type = "version"
                 /\ last'.registered = "true"
                 /\ peers'[n] \ peers[n] = { last'.sender }
            /\ peers[n] \ peers'[n] # {} =>
                 /\ last'.op \in { "recv", "idle" } /\ last'.node = n
                 /\ peers[n] \ peers'[n] = last'.evicted
                 /\ \A p \in last'.evicted : Silence(n, p) > IdleLimit ]_vars

\* C19 witness: a sweep has removed a peer while another one is registered.
C19_Witness ==
    /\ last.op = "idle" /\ last.evicted # {}
    /\ peers[last.node] # {}
    /\ peers[last.node] = DOMAIN peer_info[last.node]

----------------------------------------------------------------------------
(* Further claims about a full node under arbitrary packets (Spec) *)

\* C12: whatever packet arrives, the receive loop keeps running.
C12_LoopKeepsRunning ==
    \A n \in up : running[n]

\* C13: a packet whose target is neither empty nor this node has no effect:
\* no handler runs, nothing is sent and no field of the node changes; a
\* packet with an empty target or with this node as target is dispatched.
C13_TargetFilter ==
    [][\A n \in up :
         (last'.op = "recv" /\ last'.node = n) =>
           IF last'.target # None /\ last'.target # n
           THEN /\ ~ last'.dispatched
                /\ last'.sent = << >>
                /\ last'.registered = "none" /\ last'.valid = "none"
                /\ last'.resolved = "none"
                /\ UNCHANGED << chain, pending, tx_info, peers, peer_info,
                                ready, synced, running, inq >>
           ELSE last'.dispatched ]_vars

\* C13 witness: a ready node has dropped a `getdata` of a registered peer
\* that was addressed to another node.
C13_Witness ==
    /\ last.op = "recv" /\ last.type = "getdata"
    /\ last.target = "X"
    /\ ~ last.dispatched
    /\ ready[last.node]
    /\ last.sender \in peers[last.node]

\* C17: a synced node knows no peer that claims a height above the length
\* of its chain.
C17_SyncedMeansHighest ==
    \A n \in up :
        synced[n] =>
          \A p \in peers[n] \cap DOMAIN peer_info[n] :
              peer_info[n][p].height <= Len(chain[n])

\* C18: a message other than `version` from a sender that is not registered
\* is handled to the end without error, a request is answered to its
\* sender, and peers and peer_info stay as they are.
C18_UnknownSender ==
    [][\A n \in up :
         (/\ last'.op = "recv" /\ last'.node = n /\ last'.dispatched
          /\ last'.type \in { "verack", "heartbeat", "getdata", "getheaders",
                              "chain", "addblock" }
          /\ last'.sender \notin peers[n]) =>
           /\ ~ last'.err
           /\ running'[n]
           /\ peers'[n] = peers[n]
           /\ peer_info'[n] = peer_info[n]
           /\ last'.type \in { "getdata", "getheaders" } =>
                /\ Len(last'.sent) = 1
                /\ last'.sent[1].target = last'.sender ]_vars


----------------------------------------------------------------------------
(* The heartbeat thread *)

\* Node.send_heartbeat, the test of its loop: the thread sleeps when the node
\* is ready, and ends otherwise.
HbCheck(n) ==
    /\ n \in up /\ hb_pc[n] = "start"
    /\ hb_pc' = [ hb_pc EXCEPT ![n] = IF ready[n] THEN "sleep" ELSE "done" ]
    /\ last' = Done("hbcheck", n, NoEnvelope, NodeState(n))
    /\ UNCHANGED << chain, pending, tx_info, peers, peer_info, ready, synced,
                    running, inq, fe_pc, mine_st, role, up, now >>

\* Node.send_heartbeat, the body of its loop after the sleep: `heartbeat` is
\* broadcast, and the test follows.
HbBeat(n) ==
    /\ n \in up /\ hb_pc[n] = "sleep"
    /\ \A m \in up : Len(inq[m]) < MaxBacklog
    /\ FeCommit(n, Send(NodeState(n), n, "heartbeat", NoPayload, None), "heartbeat")
    /\ hb_pc' = [ hb_pc EXCEPT ![n] = "start" ]
    /\ UNCHANGED << running, fe_pc, mine_st, role, up, now >>

HeartbeatNext ==
    \/ NetNext
    \/ \E n \in Nodes : HbCheck(n)
    \/ \E n \in Nodes : HbBeat(n)

HeartbeatFair ==
    /\ NetFair
    /\ \A n \in Nodes : WF_vars(HbCheck(n)) /\ WF_vars(HbBeat(n))

\* Two fresh nodes with their heartbeat threads.
HeartbeatSpec == HandshakeInit /\ [][HeartbeatNext]_vars /\ HeartbeatFair

\* C14: the heartbeat task of a ready node is alive, asleep or about to
\* broadcast `heartbeat`; a task that has ended never broadcasts.
C14_HeartbeatOnceReady ==
    \A n \in up :
        ready[n] => hb_pc[n] # "done"


----------------------------------------------------------------------------
(* Mining while packets are received (MineSpec) *)

\* C15: when the tip of the chain changes while a miner is inside mine(),
\* the attempt is aborted: no block is appended on the stale tip, and the
\* chain of every node passes valid_chain in every interleaving.
C15_StaleMiningAborted ==
    /\ [](\A n \in up : ValidChain(chain[n]))
    /\ [][\A m \in up :
            (last'.op = "mine" /\ last'.node = m /\ ~ TipUnchanged(m)) =>
              chain'[m] = chain[m] ]_vars


----------------------------------------------------------------------------
(* An SPV node that receives whatever the network carries *)

\* The header sequences of `headers` messages: of valid chains, of chains
\* with an invalid last block, and the empty one.
SpvPackets(n) ==
    UNION { VersionPackets(sender, None)
            \cup PlainPackets({ "verack", "getheaders" }, sender, n)
            \cup { Envelope("headers", sender,
                            Payload(0, Headers(c), << >>, {}), n) : c \in EnvChains }
            \cup { data \in AddBlockPackets(sender, None) :
                     data.message.height = data.message.block[1].header.index + 1 } :
            sender \in Ids \ { n } }

RunRecvSpv(n) == RunRecvFrom(n, SpvPackets(n))

SpvInit ==
    /\ InitFields
    /\ chain = [ n \in Nodes |-> << Genesis.header >> ]
    /\ role = [ n \in Nodes |-> "spv" ]
    /\ up = { "A" }

SpvNext ==
    \E n \in Nodes :
        \/ RunRecvSpv(n)
        \/ FeVersion(n)
        \/ FeReady(n)
        \/ FeResolve(n)
        \/ FeSynced(n)

SpvSpec == SpvInit /\ [][SpvNext]_vars

\* The `headers` messages an SPV node n can receive.
HeadersPackets(n) == { data \in SpvPackets(n) : data.type = "headers" }

\* C16: conflict resolution of an SPV node that knows a peer with a greater
\* height sends `getheaders`, never `getdata`, to such a peer; a `headers`
\* message that passes valid_headers makes its header sequence the chain and
\* sets synced; one that fails leaves the chain as it is and runs conflict
\* resolution again.
C16_SpvHeaderSync ==
    /\ [](\A n \in up : \A data \in HeadersPackets(n) : \A order \in Orders(peers[n]) :
            LET r == SpvHandleHeaders(NodeState(n), n, data, order)
            IN  IF ValidHeaders(data.message.chain)
                THEN /\ r.chain = data.message.chain
                     /\ r.synced
                     /\ r.sent = << >>
                ELSE /\ r.chain = chain[n]
                     /\ r.resolved # "none"
                     /\ r.synced = (synced[n] \/ r.resolved = "synced"))
    /\ [][\A n \in up :
            /\ (last'.node = n /\ last'.op \in { "recv", "resolve" }
                /\ \E p \in peers'[n] : peer_info'[n][p].height > Len(chain'[n])
                /\ last'.resolved # "none") =>
                 /\ last'.resolved \in peers'[n]
                 /\ peer_info'[n][last'.resolved].height > Len(chain'[n])
                 /\ last'.sent # << >>
                 /\ last'.sent[Len(last'.sent)]
                      = Envelope("getheaders", n, NoPayload, last'.resolved)
            /\ last'.node = n =>
                 \A i \in 1..Len(last'.sent) : last'.sent[i].type # "getdata"
            /\ (last'.node = n /\ last'.op = "recv" /\ last'.type = "headers"
                /\ last'.valid = "true") =>
                 /\ ValidHeaders(chain'[n])
                 /\ chain'[n] = last'.accepted.message.chain
                 /\ synced'[n] ]_vars

\* C16 witness: an SPV node that asked for headers has received two valid
\* headers; they are its chain and it is synced.
C16_Witness ==
    /\ Received("A", "headers") /\ last.valid = "true"
    /\ fe_pc["A"] = "wait"
    /\ Len(chain["A"]) = 2
    /\ chain["A"] = last.accepted.message.chain
    /\ synced["A"]


----------------------------------------------------------------------------
(* The sweep of the receive loop, statement by statement, while the         *)
(* front-end thread sends                                                   *)

\* The receive loop of n is between two operations.
Steady(n) == peers[n] = DOMAIN peer_info[n]

\* A packet is received while no sweep is under way.
RaceRecv(n) == Steady(n) /\ RunRecvIdle(n)

\* Node.run: self.peer_info.pop(peer_id), for a peer the sweep found idle.
SweepPop(n) ==
    /\ n \in up /\ running[n] /\ Steady(n)
    /\ \E p \in DOMAIN peer_info[n] :
         /\ Silence(n, p) > IdleLimit
         /\ peer_info' = [ peer_info EXCEPT ![n] = [ q \in DOMAIN @ \ { p } |-> @[q] ] ]
    /\ last' = Done("pop", n, NoEnvelope, NodeState(n))
    /\ UNCHANGED << chain, pending, tx_info, peers, ready, synced, running, inq,
                    fe_pc, mine_st, role, up, hb_pc, now >>

\* Node.run: self.peers.remove(peer_id), after the pop.
SweepRemove(n) ==
    /\ n \in up /\ running[n]
    /\ \E p \in peers[n] \ DOMAIN peer_info[n] :
         /\ peers' = [ peers EXCEPT ![n] = @ \ { p } ]
         /\ last' = Done("remove", n, NoEnvelope,
                         [ NodeState(n) EXCEPT !.peers = @ \ { p } ])
    /\ UNCHANGED << chain, pending, tx_info, peer_info, ready, synced, running,
                    inq, fe_pc, mine_st, role, up, hb_pc, now >>

RaceNext ==
    \/ \E n \in Nodes : RaceRecv(n)
    \/ \E n \in Nodes : SweepPop(n)
    \/ \E n \in Nodes : SweepRemove(n)
    \/ \E n \in Nodes : FeVersion(n)
    \/ \E n \in Nodes : FeReady(n)
    \/ \E n \in Nodes : FeResolve(n)
    \/ \E n \in Nodes : FeSynced(n)
    \/ Advance

RaceSpec == Init /\ [][RaceNext]_vars

\* C20: a send on a thread other than the receive loop finds an entry in
\* peer_info for every identifier whose last_send it updates.
C20_SendFindsEntry ==
    last.op \in { "version", "resolve", "heartbeat", "mine" } => ~ last.err

=============================================================================
